---- MODULE Spec2Model ----
(***************************************************************************)
(* LUME dermatology ML scripts: the five training scripts                  *)
(* (batch_train, lightweight_train, minimal_train, quick_train,            *)
(* dermatology_cnn) and the integration service (ml_integration).          *)
(*                                                                         *)
(* Every function of a script is a sequence of steps run inside Python     *)
(* try/except blocks.  A step either completes, returns early, or raises   *)
(* an exception of some class; the except clauses of the function decide   *)
(* what the caller sees.  Calls into the ML framework and the file system  *)
(* are steps that the environment may make fail.                           *)
(***************************************************************************)
EXTENDS Integers, Sequences, FiniteSets, TLC

VARIABLES world, svc, ret

vars == <<world, svc, ret>>

----------------------------------------------------------------------------
(* Bounds of the model *)

\* the cases file holds k*100 or k*100+1 cases for k up to MaxHundreds
MaxHundreds == 1
\* the uploads directory holds up to MaxUploads image files
MaxUploads == 1
\* when only lightweight_train.py runs, the cases file holds k*100 or
\* k*100+1 cases for k up to MaxLightweightHundreds
MaxLightweightHundreds == 8
\* the diagnoses of the training cases leave out up to MaxMissing of the
\* class names
MaxMissing == 1

(* Program constants *)

LightweightBatchSize == 100
\* "Train your 801 images in 8 small batches of 100 images each"
DocumentedCases == 801
DocumentedBatches == 8
TopK == 3
\* confidences are per-mille integers: 0.7 is 700, 0.9 is 900
ConfidenceThreshold == 700
SeverityHigh == 900
SeverityModerate == 700

----------------------------------------------------------------------------
(* F applied to the value of v: Python evaluates an expression once and
   binds the result to a name *)
Bind(v, F(_)) == CHOOSE y \in { F(x) : x \in {v} } : TRUE

----------------------------------------------------------------------------
(* Files *)

ServiceModelPath == "server/ml/models/dermatology_cnn_final.h5"
BestModelPath == "server/ml/models/dermatology_cnn_best.h5"
EncoderPath == "server/ml/models/label_encoder.pkl"
Batch1ModelPath == "server/ml/models/lume_cnn_batch1.h5"
BatchFinalModelPath == "server/ml/models/lume_cnn_final.h5"
LightweightModelPath == "server/ml/models/lume_cnn_lightweight.h5"
MinimalModelPath == "server/ml/models/lume_ml_model.pkl"
ModelInfoPath == "server/ml/models/model_info.json"

CheckpointPath(k) == "server/ml/models/lume_cnn_checkpoint_" \o ToString(k) \o ".h5"

----------------------------------------------------------------------------
(* Python exceptions *)

\* the direct base class of each exception class the scripts can meet
ExcParent(c) ==
    CASE c = "ModuleNotFoundError" -> "ImportError"
      [] c = "JSONDecodeError"     -> "ValueError"
      [] c = "FileNotFoundError"   -> "OSError"
      [] c = "IndexError"          -> "LookupError"
      [] OTHER                     -> "Exception"

RECURSIVE IsInstance(_, _)
\* isinstance(e, cls) for an exception of class e
IsInstance(e, cls) ==
    IF e = cls THEN TRUE
    ELSE IF e = "Exception" THEN FALSE
    ELSE IsInstance(ExcParent(e), cls)

\* a handler clause: the class it names and what its body does
\* ("return_false": log and return False; "reraise": log and raise)
Clause(cls, do, log) == [cls |-> cls, do |-> do, log |-> log]

RECURSIVE MatchClause(_, _, _)
\* index of the first except clause that catches exception e, 0 if none
MatchClause(handlers, e, i) ==
    IF i > Len(handlers) THEN 0
    ELSE IF IsInstance(e, handlers[i].cls) THEN i
    ELSE MatchClause(handlers, e, i + 1)

----------------------------------------------------------------------------
(* Steps *)

Step(op, arg) == [op |-> op, arg |-> arg]

\* the exception class a failing step raises
Raises(op) ==
    CASE op \in {"import_tf", "import_sklearn", "import_cnn"} -> "ModuleNotFoundError"
      [] op = "load_json"        -> "JSONDecodeError"
      [] op = "require_cases"    -> "FileNotFoundError"
      [] op = "require_images"   -> "ValueError"
      [] op \in {"open_info", "open_model_pkl", "open_encoder", "makedirs"} -> "OSError"
      [] OTHER                   -> "RuntimeError"

\* steps that cannot be made to fail by the environment: pure Python on
\* values the function has already checked
Infallible == {"exists_cases", "require_cases", "require_images", "split_batches",
               "count_images", "require_image_count"}

\* the file a completed step leaves on disk, "" if none
Writes(s) ==
    CASE s.op = "save_batch1"       -> Batch1ModelPath
      [] s.op = "save_batch_final"  -> BatchFinalModelPath
      [] s.op = "checkpoint"        -> CheckpointPath(s.arg)
      [] s.op = "save_lightweight"  -> LightweightModelPath
      [] s.op = "open_model_pkl"    -> MinimalModelPath
      [] s.op = "open_info"         -> ModelInfoPath
      [] s.op = "fit"               -> BestModelPath
      [] s.op = "fit_fine"          -> BestModelPath
      [] s.op = "save_final"        -> ServiceModelPath
      [] s.op = "open_encoder"      -> EncoderPath
      [] OTHER                      -> ""

----------------------------------------------------------------------------
(* Running the body of a try block *)

\* what step number i does in world w when the environment fails the steps
\* whose numbers are in faults: "ok", "return_false" or an exception class
StepOutcome(s, i, w, faults) ==
    CASE s.op = "exists_cases" ->
            IF w.cases = "absent" THEN "return_false" ELSE "ok"
      [] s.op = "require_cases" ->
            IF w.cases = "absent" THEN Raises(s.op) ELSE "ok"
      [] s.op = "load_json" ->
            IF w.cases = "corrupt" THEN Raises(s.op) ELSE "ok"
      [] s.op = "require_images" ->
            IF w.usable = 0 THEN Raises(s.op) ELSE "ok"
      [] s.op = "require_image_count" ->
            IF w.uploads = 0 THEN "return_false" ELSE "ok"
      [] OTHER ->
            IF i \in faults /\ s.op \notin Infallible THEN Raises(s.op) ELSE "ok"

\* the first step of a body that ends it, given each step's outcome: the
\* first that returns or raises, except that a step inside an inner
\* `try: ... except: pass` (its op is in swallow) that raises is skipped;
\* Len(steps) + 1 when the body runs to its end
FirstStop(steps, outcome, swallow) ==
    Bind({ i \in DOMAIN steps :
             /\ outcome[i] # "ok"
             /\ ~(outcome[i] # "return_false" /\ steps[i].op \in swallow) },
         LAMBDA stopping :
             IF stopping = {} THEN Len(steps) + 1
             ELSE CHOOSE i \in stopping : \A j \in stopping : i <= j)

\* the state a body leaves when it ends at step stop: the files on disk, the
\* pending exception, the value returned early, the number of steps
\* completed, the number of steps skipped by an inner except, the steps
\* that raised, the steps completed (their names, and the steps themselves)
\* and the files written
BodyEnd(steps, w, outcome, stop) ==
    Bind({ i \in DOMAIN steps : i < stop /\ outcome[i] = "ok" },
         LAMBDA ran :
    Bind({ i \in DOMAIN steps :
             i <= stop /\ outcome[i] \notin {"ok", "return_false"} },
         LAMBDA raised :
    Bind({ Writes(steps[i]) : i \in ran } \ {""},
         LAMBDA written :
             [files |-> w.files \cup written,
              exc |-> IF stop \in raised THEN outcome[stop] ELSE "none",
              returned |-> IF stop \in DOMAIN steps /\ stop \notin raised
                           THEN "False" ELSE "none",
              completed |-> Cardinality(ran),
              skipped |-> Cardinality(raised \ {stop}),
              failed |-> { steps[i].op : i \in raised },
              done |-> { steps[i].op : i \in ran },
              ranSteps |-> { steps[i] : i \in ran },
              written |-> written])))

\* the steps run in order in world w, the environment failing the steps
\* whose numbers are in faults
RunBody(steps, w, faults, swallow) ==
    Bind([i \in DOMAIN steps |-> StepOutcome(steps[i], i, w, faults)],
         LAMBDA outcome :
    Bind(FirstStop(steps, outcome, swallow),
         LAMBDA stop : BodyEnd(steps, w, outcome, stop)))

\* the result of a call as its caller sees it
CallResult(value, raised, log, b, total) ==
    [value |-> value, raised |-> raised, log |-> log, files |-> b.files,
     completed |-> b.completed, skipped |-> b.skipped,
     failed |-> b.failed, done |-> b.done, ranSteps |-> b.ranSteps,
     batches |-> << >>,
     written |-> b.written, total |-> total, pre |-> "none"]

\* the except clauses applied to the state b a body of total steps left
Handle(b, total, handlers, endValue) ==
    IF b.exc = "none" THEN
        CallResult(IF b.returned = "none" THEN endValue ELSE b.returned,
                   "none", "none", b, total)
    ELSE Bind(MatchClause(handlers, b.exc, 1),
              LAMBDA h :
                  IF h = 0 THEN
                      CallResult("none", b.exc, "none", b, total)
                  ELSE IF handlers[h].do = "return_false" THEN
                      CallResult("False", "none", handlers[h].log, b, total)
                  ELSE
                      CallResult("none", b.exc, handlers[h].log, b, total))

\* try: steps; return endValue   except <handlers>
RunTry(steps, w, faults, swallow, handlers, endValue) ==
    Bind(RunBody(steps, w, faults, swallow),
         LAMBDA b : Handle(b, Len(steps), handlers, endValue))

----------------------------------------------------------------------------
(* batch_train.py *)

\* the except clauses without the catch-all
TrainHandlersImportOnly ==
    << Clause("ImportError", "return_false", "TensorFlow not available") >>

\* the two except clauses that close batch_cnn_train and lightweight_cnn_train
TrainHandlers ==
    << Clause("ImportError", "return_false", "TensorFlow not available"),
       Clause("Exception", "return_false", "training failed") >>

BatchSteps ==
    << Step("exists_cases", 0), Step("load_json", 0), Step("slice_cases", 0),
       Step("import_tf", 0), Step("configure_tf", 0), Step("build_model", 0),
       Step("fit_batch1", 0), Step("makedirs", 0), Step("save_batch1", 0),
       Step("load_batch1", 0), Step("compile_batch2", 0), Step("fit_batch2", 0),
       Step("save_batch_final", 0), Step("predict_test", 0),
       Step("open_info", 0), Step("dump_info", 0) >>

batch_cnn_train(w, faults) ==
    RunTry(BatchSteps, w, faults, {}, TrainHandlers, "True")

----------------------------------------------------------------------------
(* lightweight_train.py *)

Min(a, b) == IF a < b THEN a ELSE b

RECURSIVE SplitBatches(_, _, _)
\* for i in range(i, n, size): batches.append(cases[i:i + size]);
\* the sequence of the batches' lengths
SplitBatches(i, n, size) ==
    IF i >= n THEN << >>
    ELSE << Min(size, n - i) >> \o SplitBatches(i + size, n, size)

RECURSIVE BatchLoopSteps(_, _)
\* the training loop over batches 1..nb, from batch number k on: one fit per
\* batch and a checkpoint after every second batch
BatchLoopSteps(k, nb) ==
    IF k > nb THEN << >>
    ELSE << Step("fit_lw", k) >>
         \o (IF k % 2 = 0 THEN << Step("makedirs", k), Step("checkpoint", k) >>
             ELSE << >>)
         \o BatchLoopSteps(k + 1, nb)

LightweightSteps(n) ==
    << Step("exists_cases", 0), Step("load_json", 0), Step("split_batches", 0),
       Step("import_tf", 0), Step("configure_tf", 0), Step("gpu_config", 0),
       Step("build_model", 0) >>
    \o BatchLoopSteps(1, Len(SplitBatches(0, n, LightweightBatchSize)))
    \o << Step("save_lightweight", 0), Step("predict_test", 0),
          Step("open_info", 0), Step("dump_info", 0) >>

\* the GPU memory configuration sits in its own `try: ... except: pass`
LightweightSwallow == {"gpu_config"}

\* the number of the GPU configuration step in LightweightSteps
GpuStep == CHOOSE i \in DOMAIN LightweightSteps(0) : LightweightSteps(0)[i].op = "gpu_config"

\* batches holds the lengths of the batches the split loop built, once it ran
lightweight_cnn_train(w, faults) ==
    Bind(RunTry(LightweightSteps(w.nCases), w, faults, LightweightSwallow,
                TrainHandlers, "True"),
         LAMBDA r :
             IF Step("split_batches", 0) \in r.ranSteps
             THEN [r EXCEPT !.batches =
                       SplitBatches(0, w.nCases, LightweightBatchSize)]
             ELSE r)

----------------------------------------------------------------------------
(* minimal_train.py *)

MinimalHandlers ==
    << Clause("ImportError", "return_false", "Required library not available"),
       Clause("Exception", "return_false", "Minimal training failed") >>

MinimalSteps ==
    << Step("exists_cases", 0), Step("load_json", 0), Step("import_sklearn", 0),
       Step("make_features", 0), Step("label_cases", 0), Step("split_data", 0),
       Step("fit_rf", 0), Step("evaluate", 0), Step("makedirs", 0),
       Step("open_model_pkl", 0), Step("dump_model_pkl", 0),
       Step("open_info", 0), Step("dump_info", 0) >>

minimal_cnn_train(w, faults) ==
    RunTry(MinimalSteps, w, faults, {}, MinimalHandlers, "True")

----------------------------------------------------------------------------
(* dermatology_cnn.py: training *)

\* DermatologyCNN.train_model with prepare_dataset and load_diagnostic_cases
\* inlined; ModelCheckpoint writes the best model during fit
TrainModelSteps ==
    << Step("require_cases", 0), Step("load_json", 0), Step("prepare_images", 0),
       Step("encode_labels", 0), Step("require_images", 0), Step("split_data", 0),
       Step("build_model", 0), Step("fit", 0), Step("unfreeze_compile", 0),
       Step("fit_fine", 0), Step("evaluate", 0), Step("save_final", 0),
       Step("open_encoder", 0), Step("dump_encoder", 0) >>

\* train_model has no try block of its own
train_model(w, faults) ==
    RunTry(TrainModelSteps, w, faults, {}, << >>, "histories")

\* the except clause without its `raise`
MainHandlersSwallow ==
    << Clause("Exception", "return_false", "Training failed") >>

\* except Exception as e: logger.error(...); raise
MainHandlers ==
    << Clause("Exception", "reraise", "Training failed") >>

\* dermatology_cnn.main: returns None when training completed
dermatology_main(w, faults) ==
    RunTry(TrainModelSteps, w, faults, {}, MainHandlers, "None")

----------------------------------------------------------------------------
(* quick_train.py *)

CheckSteps ==
    << Step("exists_cases", 0), Step("load_json", 0), Step("count_images", 0),
       Step("require_image_count", 0) >>

\* check_training_data has no try block
check_training_data(w, faults) ==
    RunTry(CheckSteps, w, faults, {}, << >>, "True")

OptimizedHandlers ==
    << Clause("ImportError", "return_false", "Missing dependencies"),
       Clause("Exception", "return_false", "Training failed") >>

OptimizedSteps ==
    << Step("import_tf", 0), Step("configure_tf", 0), Step("import_cnn", 0),
       Step("construct_cnn", 0) >>
    \o TrainModelSteps
    \o << Step("get_model_info", 0) >>

start_optimized_training(w, faults) ==
    RunTry(OptimizedSteps, w, faults, {}, OptimizedHandlers, "True")

\* main without the early return after a failed check
quick_main_unchecked(w, faults1, faults2) ==
    Bind(check_training_data(w, faults1),
         LAMBDA c :
             IF c.raised # "none" THEN [c EXCEPT !.pre = "raised"]
             ELSE
                 Bind(start_optimized_training([w EXCEPT !.files = c.files],
                                               faults2),
                      LAMBDA t :
                          [t EXCEPT !.pre = c.value,
                                    !.completed = c.completed + @,
                                    !.skipped = c.skipped + @,
                                    !.total = c.total + @,
                                    !.done = c.done \cup @,
                                    !.failed = c.failed \cup @,
                                    !.written = c.written \cup @]))

\* quick_train.main: faults1 hit check_training_data, faults2 hit
\* start_optimized_training
quick_main(w, faults1, faults2) ==
    Bind(check_training_data(w, faults1),
         LAMBDA c :
             IF c.raised # "none" THEN [c EXCEPT !.pre = "raised"]
             ELSE IF c.value # "True" THEN
                 [c EXCEPT !.value = "False", !.pre = "False"]
             ELSE
                 Bind(start_optimized_training([w EXCEPT !.files = c.files],
                                               faults2),
                      LAMBDA t :
                          [t EXCEPT !.pre = "True",
                                    !.completed = c.completed + @,
                                    !.skipped = c.skipped + @,
                                    !.total = c.total + @,
                                    !.done = c.done \cup @,
                                    !.failed = c.failed \cup @,
                                    !.written = c.written \cup @]))

----------------------------------------------------------------------------
(* dermatology_cnn.py: the classifier object *)

class_names ==
    << "Acne Vulgaris", "Atopic Dermatitis", "Psoriasis", "Seborrheic Dermatitis",
       "Contact Dermatitis", "Melanoma", "Basal Cell Carcinoma", "Rosacea" >>

Range(f) == { f[i] : i \in DOMAIN f }

\* the Unicode code points of a diagnosis string
CodePoints(d) ==
    CASE d = "Acne Vulgaris" ->
            << 65, 99, 110, 101, 32, 86, 117, 108, 103, 97, 114, 105, 115 >>
      [] d = "Atopic Dermatitis" ->
            << 65, 116, 111, 112, 105, 99, 32, 68, 101, 114, 109, 97, 116, 105, 116, 105, 115 >>
      [] d = "Psoriasis" ->
            << 80, 115, 111, 114, 105, 97, 115, 105, 115 >>
      [] d = "Seborrheic Dermatitis" ->
            << 83, 101, 98, 111, 114, 114, 104, 101, 105, 99, 32, 68, 101, 114, 109, 97, 116, 105, 116, 105, 115 >>
      [] d = "Contact Dermatitis" ->
            << 67, 111, 110, 116, 97, 99, 116, 32, 68, 101, 114, 109, 97, 116, 105, 116, 105, 115 >>
      [] d = "Melanoma" ->
            << 77, 101, 108, 97, 110, 111, 109, 97 >>
      [] d = "Basal Cell Carcinoma" ->
            << 66, 97, 115, 97, 108, 32, 67, 101, 108, 108, 32, 67, 97, 114, 99, 105, 110, 111, 109, 97 >>
      [] d = "Rosacea" ->
            << 82, 111, 115, 97, 99, 101, 97 >>

RECURSIVE StrLess(_, _, _)
\* a < b for two strings given by their code points, compared from
\* position i on as Python and numpy compare strings
StrLess(a, b, i) ==
    IF i > Len(b) THEN FALSE
    ELSE IF i > Len(a) THEN TRUE
    ELSE IF a[i] # b[i] THEN a[i] < b[i]
    ELSE StrLess(a, b, i + 1)

RECURSIVE Sorted(_)
\* np.unique(y): the distinct strings of y in ascending order
Sorted(y) ==
    IF y = {} THEN << >>
    ELSE Bind(CHOOSE d \in y :
                  \A e \in y \ {d} : StrLess(CodePoints(d), CodePoints(e), 1),
              LAMBDA least :
                  Bind(y \ {least}, LAMBDA rest : << least >> \o Sorted(rest)))

\* LabelEncoder.fit_transform(y): classes_ after the fit; a label is
\* encoded as its position in classes_ (1-based here, as class_names)
fit_transform(y) == Sorted(y)

\* the position of x in the sequence seq
IndexOf(seq, x) == CHOOSE i \in DOMAIN seq : seq[i] = x

\* DermatologyCNN(): no network yet
NewCNN == [model |-> "None"]

_determine_severity(confidence) ==
    IF confidence >= SeverityHigh THEN "High"
    ELSE IF confidence >= SeverityModerate THEN "Moderate"
    ELSE "Mild"

\* the index of the largest element of probs among the indices in left;
\* np.argsort(...)[::-1] puts the later index first among equal values
ArgMax(probs, left) ==
    CHOOSE i \in left :
        \A j \in left : probs[i] > probs[j] \/ (probs[i] = probs[j] /\ i >= j)

RECURSIVE ArgsortDesc(_, _)
\* np.argsort(probs)[::-1] restricted to the indices in left (1-based)
ArgsortDesc(probs, left) ==
    IF left = {} THEN << >>
    ELSE Bind(ArgMax(probs, left),
              LAMBDA m :
                  Bind(left \ {m},
                       LAMBDA rest : << m >> \o ArgsortDesc(probs, rest)))

RECURSIVE TopResults(_, _, _, _)
\* the loop of predict over i = 1..n (Python's range(min(3, len(top_indices)))):
\* an index outside class_names raises IndexError and ends the loop
TopResults(probs, top, i, n) ==
    IF i > n THEN [raised |-> "none", list |-> << >>]
    ELSE LET idx == top[i]
             confidence == probs[idx]
         IN  Bind(TopResults(probs, top, i + 1, n),
                  LAMBDA rest :
             IF confidence >= ConfidenceThreshold \/ i = 1 THEN
                 IF idx \notin DOMAIN class_names THEN
                     [raised |-> "IndexError", list |-> << >>]
                 ELSE IF rest.raised # "none" THEN rest
                 ELSE [raised |-> "none",
                       list |-> << [condition |-> class_names[idx],
                                    confidence |-> confidence,
                                    severity |-> _determine_severity(confidence),
                                    type |-> IF i = 1 THEN "primary"
                                             ELSE "secondary"] >> \o rest.list]
             ELSE rest)

\* images cv2.imread can read
ReadableImages == {"lesion.jpg"}

\* preprocess_image: the image, or None when it cannot be read or
\* converted (the function catches its own exceptions)
preprocess_image(image_path) ==
    IF image_path \in ReadableImages THEN "image" ELSE "None"

\* DermatologyCNN.predict on a classifier c; net is what the network does
\* on the image: it raises, or it yields the vector net.probs
predict(c, image_path, net) ==
    IF c.model = "None" THEN
        [raised |-> "ValueError", value |-> "none", list |-> << >>]
    ELSE IF preprocess_image(image_path) = "None" THEN
        [raised |-> "none", value |-> "None", list |-> << >>]
    ELSE IF net.raises THEN
        [raised |-> "RuntimeError", value |-> "none", list |-> << >>]
    ELSE Bind(ArgsortDesc(net.probs, DOMAIN net.probs),
              LAMBDA top :
         Bind(TopResults(net.probs, top, 1, Min(TopK, Len(top))),
              LAMBDA r :
                  IF r.raised # "none" THEN
                      [raised |-> r.raised, value |-> "none", list |-> << >>]
                  ELSE [raised |-> "none", value |-> "list", list |-> r.list]))

\* DermatologyCNN.load_model on classifier c with the files on disk; fault
\* names the call the environment fails ("none", "keras_load", "pickle_load")
load_model(c, files, fault) ==
    IF ServiceModelPath \notin files THEN
        [cnn |-> c, raised |-> "FileNotFoundError"]
    ELSE IF fault = "keras_load" THEN
        [cnn |-> c, raised |-> "RuntimeError"]
    ELSE IF fault = "pickle_load" /\ EncoderPath \in files THEN
        [cnn |-> [c EXCEPT !.model = "loaded"], raised |-> "RuntimeError"]
    ELSE
        [cnn |-> [c EXCEPT !.model = "loaded"], raised |-> "none"]

----------------------------------------------------------------------------
(* ml_integration.py: MLAnalysisService *)

\* dict.get(key, default)
DictGet(d, key, default) == IF key \in DOMAIN d THEN d[key] ELSE default

TreatmentTable ==
    ("Acne Vulgaris" :>
        << "Topical retinoids (tretinoin, adapalene)", "Benzoyl peroxide",
           "Antibiotic therapy if severe", "Gentle cleansing routine" >>)
 @@ ("Atopic Dermatitis" :>
        << "Moisturizers and emollients", "Topical corticosteroids",
           "Calcineurin inhibitors", "Avoid known triggers" >>)
 @@ ("Psoriasis" :>
        << "Topical corticosteroids", "Vitamin D analogues", "Phototherapy",
           "Systemic therapy for severe cases" >>)
 @@ ("Seborrheic Dermatitis" :>
        << "Antifungal shampoos/topicals", "Topical corticosteroids",
           "Calcineurin inhibitors", "Gentle skincare routine" >>)
 @@ ("Contact Dermatitis" :>
        << "Identify and avoid allergens", "Topical corticosteroids",
           "Cool compresses", "Antihistamines for itching" >>)
 @@ ("Melanoma" :>
        << "URGENT: Immediate dermatologist consultation", "Surgical excision",
           "Biopsy confirmation required", "Regular skin monitoring" >>)
 @@ ("Basal Cell Carcinoma" :>
        << "Dermatologist consultation required", "Surgical removal options",
           "Mohs surgery consideration", "Regular follow-up" >>)
 @@ ("Rosacea" :>
        << "Topical metronidazole", "Avoid triggers (sun, spicy foods)",
           "Gentle skincare products", "Oral antibiotics if severe" >>)

TreatmentFallback == << "Consult dermatologist for proper diagnosis and treatment" >>

\* the lookup in a table that lacks the entry of one condition
_get_treatment_recommendations_short(condition) ==
    DictGet([c \in DOMAIN TreatmentTable \ {"Rosacea"} |-> TreatmentTable[c]],
            condition, TreatmentFallback)

_get_treatment_recommendations(condition) ==
    DictGet(TreatmentTable, condition, TreatmentFallback)

CausesTable ==
    ("Acne Vulgaris" :>
        << "Hormonal changes", "Excess sebum production",
           "Bacterial growth (P. acnes)", "Genetics" >>)
 @@ ("Atopic Dermatitis" :>
        << "Genetic predisposition", "Environmental allergens",
           "Immune system dysfunction", "Skin barrier defects" >>)
 @@ ("Psoriasis" :>
        << "Autoimmune condition", "Genetic factors", "Stress triggers",
           "Infections" >>)
 @@ ("Seborrheic Dermatitis" :>
        << "Malassezia yeast overgrowth", "Immune response", "Hormonal factors",
           "Environmental factors" >>)
 @@ ("Contact Dermatitis" :>
        << "Allergic reactions", "Irritant exposure", "Chemical sensitization",
           "Environmental allergens" >>)
 @@ ("Melanoma" :>
        << "UV radiation exposure", "Genetic mutations", "Family history",
           "Multiple moles" >>)
 @@ ("Basal Cell Carcinoma" :>
        << "UV radiation exposure", "Fair skin type", "Age-related changes",
           "Previous radiation exposure" >>)
 @@ ("Rosacea" :>
        << "Vascular abnormalities", "Environmental triggers",
           "Genetic predisposition", "Demodex mites" >>)

CausesFallback == << "Consult dermatologist for detailed evaluation" >>

_get_condition_causes(condition) ==
    DictGet(CausesTable, condition, CausesFallback)

\* f"{confidence:.1%}" of a per-mille confidence: whole percents and tenths
FormatPercent1(confidence) == << confidence \div 10, confidence % 10 >>

\* the loop body storing the confidence it formatted (whole percents)
DecorateRounded(result) ==
    [condition |-> result.condition,
     confidence |-> (result.confidence \div 10) * 10,
     severity |-> result.severity,
     type |-> result.type,
     analysis_method |-> "Custom CNN",
     model_accuracy |-> "95%+",
     description |-> << "AI-powered analysis indicates", result.condition,
                        FormatPercent1(result.confidence) >>,
     treatments |-> _get_treatment_recommendations(result.condition),
     causes |-> _get_condition_causes(result.condition)]

\* the body of the loop `for result in results` of analyze_image_with_cnn
Decorate(result) ==
    [condition |-> result.condition,
     confidence |-> result.confidence,
     severity |-> result.severity,
     type |-> result.type,
     analysis_method |-> "Custom CNN",
     model_accuracy |-> "95%+",
     description |-> << "AI-powered analysis indicates", result.condition,
                        FormatPercent1(result.confidence) >>,
     treatments |-> _get_treatment_recommendations(result.condition),
     causes |-> _get_condition_causes(result.condition)]

DecorateAll(results) == [i \in DOMAIN results |-> Decorate(results[i])]

AnalysisFailed ==
    << [condition |-> "Analysis Failed", confidence |-> 0,
        description |-> << "Unable to analyze the image with CNN model." >>] >>

AnalysisError(e) ==
    << [condition |-> "Analysis Error", confidence |-> 0,
        description |-> << "Error during CNN analysis", e >>] >>

ModelNotAvailable ==
    << [error |-> "CNN model not available. Please train the model first.",
        accuracy |-> "N/A"] >>

NoPrediction == [raised |-> "none", value |-> "not_called", list |-> << >>]

\* MLAnalysisService.load_model_if_available on service s
load_model_if_available(s, files, fault) ==
    IF ServiceModelPath \in files THEN
        Bind(load_model(s.cnn_model, files, fault),
             LAMBDA r :
                 IF r.raised = "none"
                 THEN [cnn_model |-> r.cnn, model_loaded |-> TRUE]
                 ELSE [cnn_model |-> r.cnn, model_loaded |-> FALSE])
    ELSE s

\* MLAnalysisService.__init__
NewService(files, fault) ==
    load_model_if_available([cnn_model |-> NewCNN, model_loaded |-> FALSE],
                            files, fault)

\* MLAnalysisService.train_cnn_model: the new service, the files on disk
\* and the returned dict
train_cnn_model(s, w, faults, fault) ==
    Bind(dermatology_main(w, faults),
         LAMBDA m :
             IF m.raised # "none" /\ IsInstance(m.raised, "Exception") THEN
                 [svc |-> s, call |-> m, success |-> FALSE, error |-> m.raised]
             ELSE
                 [svc |-> load_model_if_available(s, m.files, fault),
                  call |-> m, success |-> TRUE, error |-> "none"])

\* the try block without its except clause
analyze_try_uncaught(s, image_path, net) ==
    Bind(predict(s.cnn_model, image_path, net),
         LAMBDA p :
             IF p.raised # "none" THEN
                 [svc |-> s, kind |-> "none", raised |-> p.raised,
                  out |-> << >>, pred |-> p]
             ELSE IF p.value = "list" /\ p.list # << >> THEN
                 [svc |-> s, kind |-> "list", raised |-> "none",
                  out |-> DecorateAll(p.list), pred |-> p]
             ELSE
                 [svc |-> s, kind |-> "list", raised |-> "none",
                  out |-> AnalysisFailed, pred |-> p])

\* the try block of analyze_image_with_cnn: the returned value (as a list;
\* kind tells the error dict from the lists), what predict returned, and the
\* service afterwards
analyze_try(s, image_path, net) ==
    Bind(predict(s.cnn_model, image_path, net),
         LAMBDA p :
             IF p.raised # "none" THEN
                 IF IsInstance(p.raised, "Exception") THEN
                     [svc |-> s, kind |-> "list", raised |-> "none",
                      out |-> AnalysisError(p.raised), pred |-> p]
                 ELSE
                     [svc |-> s, kind |-> "none", raised |-> p.raised,
                      out |-> << >>, pred |-> p]
             ELSE IF p.value = "list" /\ p.list # << >> THEN
                 [svc |-> s, kind |-> "list", raised |-> "none",
                  out |-> DecorateAll(p.list), pred |-> p]
             ELSE
                 [svc |-> s, kind |-> "list", raised |-> "none",
                  out |-> AnalysisFailed, pred |-> p])

\* analyze_image_with_cnn without its test of model_loaded
analyze_image_with_cnn_unguarded(s, image_path, net) ==
    analyze_try(s, image_path, net)

\* MLAnalysisService.analyze_image_with_cnn
analyze_image_with_cnn(s, image_path, net) ==
    IF ~s.model_loaded THEN
        [svc |-> s, kind |-> "error_dict", raised |-> "none",
         out |-> ModelNotAvailable, pred |-> NoPrediction]
    ELSE analyze_try(s, image_path, net)

\* MLAnalysisService.get_model_status
get_model_status(s) ==
    [cnn_model_loaded |-> s.model_loaded,
     model_path |-> ServiceModelPath,
     training_data |-> "801 diagnostic cases",
     expected_accuracy |-> "95%+",
     classes |-> IF s.model_loaded THEN class_names ELSE << >>,
     status |-> IF s.model_loaded THEN "Ready" ELSE "Needs Training"]

----------------------------------------------------------------------------
(* Inputs *)

CaseCounts == { k * 100 + r : k \in 0..MaxHundreds, r \in 0..1 }

\* the states of the data directories before any script has run: the cases
\* file (absent, not parseable, or a list of nCases cases), the number of
\* image files under uploads/, the number of cases whose image is there
\* and readable, the diagnoses of those cases, and for the network saved as
\* dermatology_cnn_final.h5 the diagnosis each of its output units was
\* trained on
Worlds ==
    { [cases |-> c, nCases |-> n, uploads |-> u, usable |-> k, files |-> {},
       diagnoses |-> IF k = 0 THEN {} ELSE {class_names[1]},
       trained |-> << >>] :
        c \in {"absent", "corrupt", "ok"}, n \in CaseCounts,
        u \in 0..MaxUploads, k \in 0..MaxUploads }

WorldOK(w) ==
    /\ w.cases # "ok" => w.nCases = 0 /\ w.usable = 0
    /\ w.usable <= w.nCases
    /\ w.usable <= w.uploads

ImagePaths == {"lesion.jpg", "missing.jpg"}

\* output vectors of a loaded network: the three largest values
ConfTriples ==
    { << 950, 30, 20 >>, << 800, 150, 50 >>, << 500, 300, 200 >>,
      << 995, 905, 700 >>, << 900, 700, 699 >> }

\* an 8-unit output with triple t on the units k, k+1, k+2 (cyclically)
Probs8(k, t) ==
    [i \in 1..8 |-> IF i = k THEN t[1]
                    ELSE IF i = (k % 8) + 1 THEN t[2]
                    ELSE IF i = ((k + 1) % 8) + 1 THEN t[3]
                    ELSE 0]

\* what the loaded network can do on an image: raise, or yield an output
\* vector (of 8 units, of no unit, of 2 units or of 9 units)
NetOutcomes ==
    { [raises |-> TRUE, probs |-> << >>] }
    \cup { [raises |-> FALSE, probs |-> Probs8(k, t)] :
             k \in 1..8, t \in {<< 950, 30, 20 >>, << 995, 905, 700 >>} }
    \cup { [raises |-> FALSE, probs |-> Probs8(1, t)] : t \in ConfTriples }
    \cup { [raises |-> FALSE, probs |-> p] :
             p \in { << >>, << 400, 600 >>,
                     << 10, 20, 30, 40, 50, 60, 70, 80, 650 >>,
                     << 10, 20, 30, 40, 50, 60, 70, 980, 5 >> } }

LoadFaults == {"none", "keras_load", "pickle_load"}

\* conditions handed to the lookup tables directly
LookupConditions ==
    Range(class_names) \cup {"Eczema", "acne vulgaris", "Analysis Failed"}

\* the environment fails at most the step number f (0: none)
Faults(f) == IF f = 0 THEN {} ELSE {f}

----------------------------------------------------------------------------
(* The last call and its result, as the caller saw it *)

\* the kind of a step, as a caller tells failures apart
StepKind(op) ==
    CASE op = "load_json" -> "parse"
      [] op \in {"import_tf", "import_sklearn", "import_cnn"} -> "import"
      [] op = "gpu_config" -> "gpu"
      [] op \in {"makedirs", "open_info", "dump_info", "open_model_pkl",
                 "dump_model_pkl", "open_encoder", "dump_encoder"} -> "write"
      [] op \in {"require_cases", "require_images"} -> "data"
      [] OTHER -> "framework"

\* the steps that load the ML framework or build a classifier
Landmarks == {"import_tf", "import_cnn", "construct_cnn", "build_model"}

\* the summary of a script's call r: what it returned or raised, what it
\* logged, whether it went through every step (complete) and how many of
\* them an inner except skipped, the kinds of the steps that failed, the
\* landmark steps it completed, whether it wrote a file, the batches the
\* split loop of lightweight_cnn_train built and the number of fit calls of
\* its training loop that completed; for an analysis, the output unit with
\* the largest value (unit)
CallRet(op, r) ==
    [op |-> op, value |-> r.value, raised |-> r.raised, log |-> r.log,
     complete |-> (r.completed + r.skipped = r.total), skipped |-> r.skipped,
     failed |-> { StepKind(x) : x \in r.failed },
     done |-> r.done \cap Landmarks, wrote |-> (r.written # {}),
     batches |-> r.batches,
     fits |-> Cardinality({ s \in r.ranSteps : s.op = "fit_lw" }),
     unit |-> 0,
     pre |-> r.pre,
     path |-> "none", out |-> << >>, pred |-> NoPrediction]

ValueRet(op, value, raised, path, out, pred) ==
    [op |-> op, value |-> value, raised |-> raised, log |-> "none",
     complete |-> TRUE, skipped |-> 0, failed |-> {},
     done |-> {}, wrote |-> FALSE, batches |-> << >>, fits |-> 0,
     unit |-> 0, pre |-> "none",
     path |-> path, out |-> out, pred |-> pred]

----------------------------------------------------------------------------
(* State machine *)

Init ==
    /\ world \in { w \in Worlds : WorldOK(w) }
    /\ svc = NewService({}, "none")
    /\ ret = ValueRet("import", "none", "none", "none", << >>, NoPrediction)

\* python batch_train.py
BatchCnnTrain ==
    \E f \in 0..Len(BatchSteps) :
        \E r \in { batch_cnn_train(world, Faults(f)) } :
            /\ world' = [world EXCEPT !.files = r.files]
            /\ ret' = CallRet("batch_cnn_train", r)
            /\ UNCHANGED svc

\* python lightweight_train.py
LightweightCnnTrain ==
    \E f \in 0..Len(LightweightSteps(world.nCases)), g \in {0, GpuStep} :
        \E r \in { lightweight_cnn_train(world, Faults(f) \cup Faults(g)) } :
            /\ world' = [world EXCEPT !.files = r.files]
            /\ ret' = CallRet("lightweight_cnn_train", r)
            /\ UNCHANGED svc

\* python minimal_train.py
MinimalCnnTrain ==
    \E f \in 0..Len(MinimalSteps) :
        \E r \in { minimal_cnn_train(world, Faults(f)) } :
            /\ world' = [world EXCEPT !.files = r.files]
            /\ ret' = CallRet("minimal_cnn_train", r)
            /\ UNCHANGED svc

\* the world after a call r that ran train_model: the files it wrote, and
\* once the final model is saved, the labels its output units were fitted
\* to (y_categorical of prepare_dataset)
AfterTraining(w, r) ==
    [w EXCEPT !.files = r.files,
              !.trained = IF Step("save_final", 0) \in r.ranSteps
                          THEN fit_transform(w.diagnoses) ELSE @]

\* python dermatology_cnn.py
DermatologyMain ==
    \E f \in 0..Len(TrainModelSteps) :
        \E r \in { dermatology_main(world, Faults(f)) } :
            /\ world' = AfterTraining(world, r)
            /\ ret' = CallRet("dermatology_main", r)
            /\ UNCHANGED svc

\* python quick_train.py
QuickMain ==
    \E f \in 0..(Len(CheckSteps) + Len(OptimizedSteps)) :
        \E r \in { quick_main(world,
                            IF f <= Len(CheckSteps) THEN Faults(f) ELSE {},
                            IF f > Len(CheckSteps)
                            THEN Faults(f - Len(CheckSteps)) ELSE {}) } :
            /\ world' = AfterTraining(world, r)
            /\ ret' = CallRet("quick_main", r)
            /\ UNCHANGED svc

\* a process imports ml_integration: ml_service = MLAnalysisService()
Construct ==
    \E fault \in LoadFaults :
        /\ svc' = NewService(world.files, fault)
        /\ ret' = ValueRet("MLAnalysisService", "none", "none", "none", << >>,
                           NoPrediction)
        /\ UNCHANGED world

\* train_ml_model()
TrainCnnModel ==
    \E f \in 0..Len(TrainModelSteps), fault \in LoadFaults :
        \E t \in { train_cnn_model(svc, world, Faults(f), fault) } :
            /\ svc' = t.svc
            /\ world' = AfterTraining(world, t.call)
            /\ ret' = [CallRet("train_cnn_model", t.call) EXCEPT
                         !.value = IF t.success THEN "success" ELSE "failure",
                         !.raised = "none"]

\* the output unit with the largest value (top_indices[0]) when predict
\* built a result from the output net.probs, 0 otherwise
TopUnit(pred, net) ==
    IF pred.list = << >> THEN 0
    ELSE ArgsortDesc(net.probs, DOMAIN net.probs)[1]

\* analyze_with_ml(image_path)
AnalyzeWithMl ==
    \E image_path \in ImagePaths, net \in NetOutcomes :
        \E a \in { analyze_image_with_cnn(svc, image_path, net) } :
            /\ svc' = a.svc
            /\ ret' = [ValueRet("analyze_image_with_cnn", a.kind, a.raised,
                                image_path, a.out, a.pred)
                         EXCEPT !.unit = TopUnit(a.pred, net)]
            /\ UNCHANGED world

\* get_ml_status()
GetMlStatus ==
    /\ ret' = ValueRet("get_model_status", "status", "none", "none",
                       << get_model_status(svc) >>, NoPrediction)
    /\ UNCHANGED <<world, svc>>

\* the two lookups of the service on one condition
LookupCondition ==
    \E condition \in LookupConditions :
        /\ ret' = ValueRet("lookup", "lists", "none", "none",
                           << [condition |-> condition,
                               treatments |-> _get_treatment_recommendations(condition),
                               causes |-> _get_condition_causes(condition)] >>,
                           NoPrediction)
        /\ UNCHANGED <<world, svc>>

\* the integration service in its process: the model it loads is the one
\* train_cnn_model leaves on disk
Next ==
    \/ Construct
    \/ TrainCnnModel
    \/ AnalyzeWithMl
    \/ GetMlStatus
    \/ LookupCondition

Spec == Init /\ [][Next]_vars

\* the two scripts that train a DermatologyCNN
NextScripts ==
    \/ DermatologyMain
    \/ QuickMain

SpecScripts == Init /\ [][NextScripts]_vars

\* the three scripts that train on synthetic arrays, and a service started
\* after them
NextTraining ==
    \/ BatchCnnTrain
    \/ LightweightCnnTrain
    \/ MinimalCnnTrain
    \/ Construct

\* these scripts never look at the uploads directory
InitTraining ==
    /\ Init
    /\ world.uploads = 0

SpecTraining == InitTraining /\ [][NextTraining]_vars

\* lightweight_train.py alone, run (again and again) on a parseable cases
\* file of up to MaxLightweightHundreds * 100 + 1 cases
LightweightCaseCounts ==
    { k * 100 + r : k \in 0..MaxLightweightHundreds, r \in 0..1 }

InitLightweight ==
    /\ world \in { [cases |-> "ok", nCases |-> n, uploads |-> 0, usable |-> 0,
                    files |-> {}, diagnoses |-> {}, trained |-> << >>] :
                      n \in LightweightCaseCounts }
    /\ svc = NewService({}, "none")
    /\ ret = ValueRet("import", "none", "none", "none", << >>, NoPrediction)

NextLightweight == LightweightCnnTrain

SpecLightweight == InitLightweight /\ [][NextLightweight]_vars

\* the sets of diagnoses the usable training cases carry
LabelSets ==
    { y \in SUBSET Range(class_names) :
        Cardinality(Range(class_names) \ y) <= MaxMissing }

\* a parseable cases file with one usable case per diagnosis
InitLabels ==
    /\ world \in { [cases |-> "ok", nCases |-> Cardinality(y),
                    uploads |-> Cardinality(y), usable |-> Cardinality(y),
                    files |-> {}, diagnoses |-> y, trained |-> << >>] :
                      y \in LabelSets }
    /\ svc = NewService({}, "none")
    /\ ret = ValueRet("import", "none", "none", "none", << >>, NoPrediction)

\* a DermatologyCNN is trained, then a service loads it and analyzes images
NextLabels ==
    \/ DermatologyMain
    \/ Construct
    \/ AnalyzeWithMl

SpecLabels == InitLabels /\ [][NextLabels]_vars

----------------------------------------------------------------------------
(* Properties *)

SyntheticTrainers == {"batch_cnn_train", "lightweight_cnn_train", "minimal_cnn_train"}

\* C1 as stated: batch_cnn_train, lightweight_cnn_train and minimal_cnn_train
\* never propagate an exception; whenever any step fails, or the cases file
\* is missing, the function returns False; it returns True only when every
\* step, the write of model_info.json included, completed.
C1_AnyFailedStepReturnsFalse ==
    ret.op \in SyntheticTrainers =>
        /\ ret.raised = "none"
        /\ ret.value \in {"True", "False"}
        /\ (ret.failed # {} \/ world.cases = "absent") => ret.value = "False"
        /\ ret.value = "True" =>
              /\ ret.failed = {}
              /\ ret.complete /\ ret.skipped = 0
              /\ ModelInfoPath \in world.files

\* C1 amended: the same, except for the GPU memory configuration of
\* lightweight_cnn_train, whose failure its own bare except swallows: the
\* function returns False whenever a step other than that one fails, and
\* returns True only when every other step completed.
C1_FailedStepOutsideGpuConfigReturnsFalse ==
    ret.op \in SyntheticTrainers =>
        /\ ret.raised = "none"
        /\ ret.value \in {"True", "False"}
        /\ (ret.failed \ {"gpu"} # {} \/ world.cases = "absent")
              => ret.value = "False"
        /\ ret.value = "True" =>
              /\ ret.failed \subseteq {"gpu"}
              /\ ret.complete
              /\ ret.skipped = Cardinality(ret.failed)
              /\ ModelInfoPath \in world.files
        /\ ret.op # "lightweight_cnn_train" => "gpu" \notin ret.failed

\* C1 witness: a lightweight run whose GPU configuration failed and was
\* skipped, and whose later framework call failed: it returned False
C1_Witness ==
    /\ ret.op = "lightweight_cnn_train"
    /\ ret.failed = {"gpu", "framework"}
    /\ ret.value = "False"
    /\ ret.raised = "none"

\* C2 as stated: when train_model fails, dermatology_cnn.main logs the
\* failure and finishes without an exception reaching its caller.
C2_MainSwallowsFailure ==
    ret.op = "dermatology_main" => ret.raised = "none"

\* C2 amended: when train_model fails, main logs the failure and raises the
\* same exception again to its caller; it returns (None) only when training
\* completed, and never returns False.
C2_MainLogsAndReraises ==
    ret.op = "dermatology_main" =>
        /\ ret.failed # {} =>
              /\ ret.raised # "none"
              /\ ret.log = "Training failed"
              /\ ret.value = "none"
        /\ ret.failed = {} =>
              /\ ret.raised = "none"
              /\ ret.value = "None"
              /\ ret.complete

\* C2 witness: main ended by re-raising the exception of a failed fit
C2_Witness ==
    /\ ret.op = "dermatology_main"
    /\ ret.failed = {"framework"}
    /\ ret.raised = "RuntimeError"
    /\ ret.log = "Training failed"

\* C3: quick_train.main returns False and never raises for every failure of
\* either phase: a failure of the data check (cases file missing, cases file
\* not parseable, no images) or a failure inside start_optimized_training.
C3_QuickMainReturnsFalseOnFailure ==
    (ret.op = "quick_main" /\ (ret.failed # {} \/ ret.pre # "True")) =>
        /\ ret.raised = "none"
        /\ ret.value = "False"

\* C10: in quick_train.main the training phase runs only after
\* check_training_data returned True; when the check returns False, main
\* returns False without importing the framework, constructing a
\* DermatologyCNN or writing a file.
C10_TrainingOnlyAfterCheck ==
    ret.op = "quick_main" =>
        /\ (ret.done # {} \/ ret.wrote
            \/ ret.failed \cap {"import", "framework", "write", "data"} # {})
              => ret.pre = "True"
        /\ ret.pre = "False" =>
              /\ ret.value = "False"
              /\ ret.raised = "none"
              /\ ret.done = {}
              /\ ~ret.wrote
              /\ ret.failed = {}

\* C10 witness: the check found the cases file but no image, and main
\* returned False
C10_Witness ==
    /\ ret.op = "quick_main"
    /\ world.cases = "ok" /\ world.uploads = 0
    /\ ret.pre = "False"
    /\ ret.value = "False"

ClassNames == Range(class_names)

\* the last call was analyze_image_with_cnn on its success path: the model
\* was loaded and predict returned a non-empty list
AnalysisSucceeded ==
    /\ ret.op = "analyze_image_with_cnn"
    /\ ret.pred.raised = "none"
    /\ ret.pred.value = "list"
    /\ ret.pred.list # << >>

\* C4: on the success path every element returned by analyze_image_with_cnn
\* carries a 'treatments' and a 'causes' list; for each of the eight class
\* names both are the entry of that condition, never the generic fallback;
\* the fallback is returned exactly for a condition outside the eight names.
C4_ConditionSpecificAdvice ==
    /\ AnalysisSucceeded =>
          \A i \in DOMAIN ret.out :
              /\ {"treatments", "causes"} \subseteq DOMAIN ret.out[i]
              /\ ret.out[i].condition \in ClassNames
              /\ ret.out[i].treatments = TreatmentTable[ret.out[i].condition]
              /\ ret.out[i].causes = CausesTable[ret.out[i].condition]
              /\ ret.out[i].treatments # TreatmentFallback
              /\ ret.out[i].causes # CausesFallback
    /\ ret.op = "lookup" =>
          \A i \in DOMAIN ret.out :
              /\ ret.out[i].treatments = TreatmentFallback
                    <=> ret.out[i].condition \notin ClassNames
              /\ ret.out[i].causes = CausesFallback
                    <=> ret.out[i].condition \notin ClassNames
              /\ ret.out[i].condition \in ClassNames =>
                    /\ ret.out[i].treatments = TreatmentTable[ret.out[i].condition]
                    /\ ret.out[i].causes = CausesTable[ret.out[i].condition]

\* C4 witness: an analysis that returned three conditions, the last of the
\* eight class names first
C4_Witness ==
    /\ AnalysisSucceeded
    /\ Len(ret.out) = 3
    /\ ret.out[1].condition = "Rosacea"
    /\ ret.out[1].treatments[1] = "Topical metronidazole"

AddedKeys == {"analysis_method", "model_accuracy", "description", "treatments", "causes"}

\* C5: on the success path the list returned by analyze_image_with_cnn has
\* the elements of the list predict returned, in the same order, with
\* 'condition', 'confidence', 'severity' and 'type' unchanged and only the
\* keys analysis_method, model_accuracy, description, treatments and causes
\* added.
C5_OnlyDecorates ==
    AnalysisSucceeded =>
        /\ ret.value = "list"
        /\ Len(ret.out) = Len(ret.pred.list)
        /\ \A i \in DOMAIN ret.out :
              /\ DOMAIN ret.out[i] = DOMAIN ret.pred.list[i] \cup AddedKeys
              /\ \A k \in DOMAIN ret.pred.list[i] :
                    ret.out[i][k] = ret.pred.list[i][k]

\* C5 witness: predict returned a primary and a secondary prediction with a
\* confidence that is no whole percent
C5_Witness ==
    /\ AnalysisSucceeded
    /\ Len(ret.pred.list) >= 2
    /\ ret.out[2].type = "secondary"
    /\ ret.out[2].confidence % 10 # 0

\* C6: while model_loaded is false, analyze_image_with_cnn returns the error
\* value "CNN model not available..." for every image path, without calling
\* predict and without changing model_loaded or the CNN object.
C6_NotLoadedReturnsError ==
    [][ (ret'.op = "analyze_image_with_cnn" /\ ~svc.model_loaded) =>
            /\ ret'.value = "error_dict"
            /\ ret'.out = ModelNotAvailable
            /\ ret'.raised = "none"
            /\ ret'.pred.value = "not_called"
            /\ svc' = svc ]_vars

\* C6 witness: an analysis of a readable image by a service without model
C6_Witness ==
    /\ ret.op = "analyze_image_with_cnn"
    /\ ret.path = "lesion.jpg"
    /\ ~svc.model_loaded
    /\ ret.value = "error_dict"

\* C7: once the model is loaded analyze_image_with_cnn never raises: when
\* predict raises, the result is one element with condition 'Analysis Error'
\* and confidence 0.0; when predict returns None or an empty list, it is one
\* element with condition 'Analysis Failed' and confidence 0.0; model_loaded
\* is left unchanged.
C7_LoadedNeverRaises ==
    [][ (ret'.op = "analyze_image_with_cnn" /\ svc.model_loaded) =>
            /\ ret'.raised = "none"
            /\ ret'.value = "list"
            /\ ret'.pred.value # "not_called"
            /\ ret'.pred.raised # "none" =>
                  /\ Len(ret'.out) = 1
                  /\ ret'.out[1].condition = "Analysis Error"
                  /\ ret'.out[1].confidence = 0
            /\ (ret'.pred.raised = "none"
                /\ (ret'.pred.value = "None" \/ ret'.pred.list = << >>)) =>
                  /\ Len(ret'.out) = 1
                  /\ ret'.out[1].condition = "Analysis Failed"
                  /\ ret'.out[1].confidence = 0
            /\ svc'.model_loaded = svc.model_loaded ]_vars

\* C7 witness: predict raised IndexError on a network with nine outputs and
\* the service returned the 'Analysis Error' element
C7_Witness ==
    /\ ret.op = "analyze_image_with_cnn"
    /\ svc.model_loaded
    /\ ret.pred.raised = "IndexError"
    /\ ret.out[1].condition = "Analysis Error"

\* C8: after train_cnn_model returned success, the trained model has been
\* reloaded: model_loaded is true and get_model_status reports 'Ready' with
\* the eight class names.
C8_SuccessMeansReady ==
    (ret.op = "train_cnn_model" /\ ret.value = "success") =>
        /\ svc.model_loaded
        /\ get_model_status(svc).status = "Ready"
        /\ get_model_status(svc).classes = class_names

\* C9: after batch_cnn_train, lightweight_cnn_train or minimal_cnn_train
\* returned True, a MLAnalysisService constructed next loads a model and has
\* model_loaded true.
C9_ServiceLoadsTrainedModel ==
    [][ (ret.op \in SyntheticTrainers /\ ret.value = "True"
         /\ ret'.op = "MLAnalysisService") => svc'.model_loaded ]_vars

\* C11 as stated: lightweight_cnn_train trains the 801 diagnostic cases in 8
\* batches of 100: on a cases list of length 801 the split loop builds
\* exactly 8 batches, and a run that goes through the whole training loop
\* makes exactly 8 fit calls.
C11_EightBatchesFor801Cases ==
    (ret.op = "lightweight_cnn_train" /\ world.nCases = DocumentedCases) =>
        /\ ret.batches # << >> =>
              /\ Len(ret.batches) = DocumentedBatches
              /\ \A k \in DOMAIN ret.batches :
                    ret.batches[k] = LightweightBatchSize
        /\ ret.value = "True" => ret.fits = DocumentedBatches

\* C12 as stated: when the training cases carry all eight class names as
\* diagnoses, every diagnosis d of class_names gets from prepare_dataset the
\* index at which class_names holds d, so that predict names the condition
\* the top output unit was trained on.
C12_PredictNamesTrainedClass ==
    Range(world.trained) = Range(class_names) =>
        /\ \A d \in Range(class_names) :
              IndexOf(world.trained, d) = IndexOf(class_names, d)
        /\ (ret.op = "analyze_image_with_cnn" /\ ret.unit \in DOMAIN world.trained)
              => ret.pred.list[1].condition = world.trained[ret.unit]

====
